---- MODULE Spec2Model ----
(***************************************************************************)
(* Model of the market-data layer of the mobile trading platform:          *)
(* src/src/contexts/WebSocketContext.tsx (WebSocketProvider).              *)
(*                                                                         *)
(* Units.  Prices are integers in cents, amounts integers in hundredths,   *)
(* time is in milliseconds since the provider was constructed (Date.now()  *)
(* is read as that clock).                                                 *)
(*                                                                         *)
(* React.  A state setter only records the new value; the next render      *)
(* and its effects are the separate step Commit.  The callbacks made by    *)
(* useCallback are closures over the values of the render that made them:  *)
(* a closure is the record [provider, assetType, symbol, ob, cbAsset].     *)
(* Arrays are objects: an order book holds references into `heap`, so the  *)
(* in-place writes of processOrderBookUpdate reach every holder.           *)
(*                                                                         *)
(* Scheduling.  Handlers run to completion, one at a time.  A pending      *)
(* render may be overtaken by any other event; this admits more runs than  *)
(* React makes (it renders promptly), never fewer.  In demo mode every     *)
(* render calls setOrderBook, so a render is pending at all times there.   *)
(*                                                                         *)
(* WebSocket.  Messages reach a socket only while it is OPEN; a failed     *)
(* connection raises the error event and then the close event; close() on  *)
(* a connecting or open socket is followed by its close event.  The        *)
(* snapshot is fed with bids by falling and asks by rising price.          *)
(*                                                                         *)
(* Market hours.  `new Date()` is the device's local clock: bootMinute is   *)
(* the minute of the week at construction, `now` the time since.  The      *)
(* consumers' memos and state are in `screens`.                            *)
(*                                                                         *)
(* Bookkeeping.  `arrivals` counts the trades set into the list, `used`    *)
(* the events of the environment, which the bounds limit.                  *)
(***************************************************************************)
EXTENDS Integers, Sequences, FiniteSets, TLC

VARIABLES
  orderBook, trades, isConnected, assetType, symbol, provider,  \* useState
  marketData, isMarketOpen,                                     \* useState
  ws, reconnectTimeout, demoInterval, tradeCounter,             \* useRef
  rendered, obFresh, status,                                    \* React
  sockets, timers, intervals, heap, now,                        \* platform
  marketIntervals, marketCleanup, bootMinute,                   \* market hours
  arrivals, used,                                               \* bookkeeping
  screens                                                       \* the consumers' own state

vars == <<orderBook, trades, isConnected, assetType, symbol, provider, marketData,
          ws, reconnectTimeout, demoInterval, tradeCounter,
          rendered, obFresh, status,
          sockets, timers, intervals, heap, now, arrivals, used, screens,
          isMarketOpen, marketIntervals, marketCleanup, bootMinute>>

-----------------------------------------------------------------------------
(* Bounds of the exploration *)
MaxTime == 3
MaxOpens == 1
MaxDrops == 1
MaxUser == 2
MaxMsgs == 1
MaxTicks == 1
MaxSockets == 2
MaxTimers == 2
PreTrades == 99
MaxRenders == 3
ScreenTrades == 21
MaxMinutes == 2
MaxSummaryTicks == 2

(* Program constants *)
TradeCap == 100
DemoLevels == 20
ReconnectDelay == 3000
DemoPeriod == 1000
DefaultDemoPrice == 100
OrderBookRows == 15
HeatmapLevels == 20
HeatmapColumns == 60
ChartTrades == 20
MarketCheckPeriod == 60000

\* the step of the clock of the exploration
TimeStep == DemoPeriod

-----------------------------------------------------------------------------
(* Selections *)
AssetTypes == {"crypto", "stock"}
Providers == {"demo", "binance", "coinbase", "alpaca", "polygon"}
Symbols == {"BTCUSDT", "AAPL"}

\* the values of the provider picker of an asset type
PROVIDERS(t) == IF t = "crypto" THEN {"demo", "binance", "coinbase"} ELSE {"demo", "alpaca", "polygon"}

DEFAULT_SYMBOLS(t) == IF t = "crypto" THEN "BTCUSDT" ELSE "AAPL"

\* dollars; `|| 100` for a symbol the table does not hold
DEMO_PRICES(s) ==
  CASE s = "BTCUSDT" -> 45000
    [] s = "ETHUSDT" -> 2500
    [] s = "AAPL" -> 175
    [] s = "GOOGL" -> 140
    [] s = "TSLA" -> 250
    [] s = "MSFT" -> 380
    [] s = "AMZN" -> 170
    [] s = "NVDA" -> 480
    [] OTHER -> DefaultDemoPrice

BasePriceCents(s) == DEMO_PRICES(s) * 100

-----------------------------------------------------------------------------
(* Sequences helpers *)
Min(a, b) == IF a < b THEN a ELSE b

RemoveAt(s, i) == [k \in 1..(Len(s) - 1) |-> IF k < i THEN s[k] ELSE s[k + 1]]

\* a reference (index, 0 = none) after element i was removed
ShiftRef(r, i) == IF r = i THEN 0 ELSE IF r > i THEN r - 1 ELSE r

RECURSIVE InsertBy(_, _, _)
\* stable insertion of level x into the sorted levels s; sign 1: by falling price (the
\* comparator b[0] - a[0]), sign -1: by rising price (a[0] - b[0])
InsertBy(sign, s, x) ==
  IF s = <<>> THEN <<x>>
  ELSE IF sign * (x[1] - Head(s)[1]) > 0 THEN <<x>> \o s
  ELSE <<Head(s)>> \o InsertBy(sign, Tail(s), x)

RECURSIVE SortBy(_, _)
SortBy(sign, s) ==
  IF s = <<>> THEN <<>>
  ELSE InsertBy(sign, SortBy(sign, SubSeq(s, 1, Len(s) - 1)), s[Len(s)])

\* a sort that is left out (a faulty variant, to see that the order depends on the sort)
LeaveUnsorted(xs) == xs

\* xs.sort((a, b) => b[0] - a[0]) and xs.sort((a, b) => a[0] - b[0]); Array.prototype.sort is stable
SortDesc(xs) == SortBy(1, xs)
SortAsc(xs) == SortBy(-1, xs)

-----------------------------------------------------------------------------
(* Math.random(): the j-th draw of a run seeded with `seed`, in tenths (0..9) *)
Seeds == {3}
TickDraws == {1}
Rand(seed, j) == (seed + 7 * j) % 10

\* parseFloat((Math.random() * 1000).toFixed(2)), in hundredths
RandomAmount(seed, j) == Rand(seed, j) * 10000

\* price.toFixed(2) of basePrice -/+ (k * spread), spread = basePrice * 0.0001, k = i + 1.
\* The offset k * basePrice / 10000 is rounded to the cent; where it ends in exactly half a
\* cent the double computed for the bid lies below the tie and the one for the ask above
\* it, so both round away from basePrice.
LevelOffset(cp, k) == (cp * k + 5000) \div 10000

generateDemoOrderBook(cp, seed, t) ==
  [bids |-> [k \in 1..DemoLevels |-> <<cp - LevelOffset(cp, k), RandomAmount(seed, 2 * k - 1)>>],
   asks |-> [k \in 1..DemoLevels |-> <<cp + LevelOffset(cp, k), RandomAmount(seed, 2 * k)>>],
   lastUpdateId |-> t]

\* basePrice + (Math.random() - 0.5) * variance, variance = basePrice * 0.001, to the cent
generateDemoTrade(cp, id, seed, t) ==
  [id |-> <<"trade", id>>,
   price |-> cp + ((2 * (Rand(seed, 1) - 5) * cp + 10000) \div 20000),
   amount |-> Rand(seed, 2) * 1000,
   time |-> t,
   isBuyerMaker |-> Rand(seed, 3) > 5]

\* basePrice + (Math.random() - 0.5) * basePrice * 0.001 of the interval callback, draw in tenths
TickPrice(base, draw) == base + ((draw - 5) * base) \div 10000

-----------------------------------------------------------------------------
(* The wire format of the feed: decimal strings, read by parseFloat *)
parseFloat(str) ==
  CASE str = "0" -> 0
    [] str = "0.00000000" -> 0
    [] str = "1.00" -> 100
    [] str = "2.50" -> 250
    [] str = "3.00" -> 300
    [] str = "44991.00" -> 4499100
    [] str = "44993.00" -> 4499300
    [] str = "44995.50" -> 4499550
    [] str = "45004.50" -> 4500450
    [] str = "45009.00" -> 4500900

\* GET /api/v3/depth: bids by falling price, asks by rising price
Snapshots ==
  {[bids |-> << <<"44995.50", "1.00">>, <<"44991.00", "2.50">> >>,
    asks |-> << <<"45004.50", "1.00">>, <<"45009.00", "3.00">> >>,
    lastUpdateId |-> 7]}

DepthUpdates ==
  {[e |-> "depthUpdate", b |-> << <<"44995.50", "0.00000000">> >>, a |-> << <<"45004.50", "0">> >>],
   [e |-> "depthUpdate",
    b |-> << <<"44993.00", "1.00">>, <<"44993.00", "3.00">>, <<"44991.00", "2.50">> >>,
    a |-> << <<"45009.00", "1.00">> >>]}

TradeEvents ==
  {[e |-> "trade", t |-> 501, p |-> "45004.50", q |-> "1.00", T |-> 1, m |-> TRUE]}

OtherEvents == {[e |-> "kline"]}

Messages == DepthUpdates \cup TradeEvents \cup OtherEvents

\* frames of the socket that are no stream message: text that is no JSON, and JSON with
\* no `data` member
MalformedFrames == {"not json", "{}"}

\* JSON.parse(event.data) of such a frame: ok is false where it throws a SyntaxError
JSONparse(text) ==
  CASE text = "not json" -> [ok |-> FALSE, hasData |-> FALSE]
    [] text = "{}" -> [ok |-> TRUE, hasData |-> FALSE]

-----------------------------------------------------------------------------
(* Order books: null, or references to the bids and asks arrays in the heap *)
NullBook == [null |-> TRUE, bids |-> 0, asks |-> 0, lastUpdateId |-> 0]

Book(b, a, id) == [null |-> FALSE, bids |-> b, asks |-> a, lastUpdateId |-> id]

Prices(xs) == {xs[k][1] : k \in 1..Len(xs)}

\* MarketData: null, or the summary; change in cents, changePercent in hundredths of a
\* percent, marketCap -1 where it is undefined
NullSummary ==
  [null |-> TRUE, symbol |-> "", price |-> 0, change |-> 0, changePercent |-> 0,
   volume |-> 0, high |-> 0, low |-> 0, marketCap |-> -1]

\* the summary connectDemo sets; the draws follow those of generateDemoOrderBook
demoSummary(clo, base, seed) ==
  [null |-> FALSE, symbol |-> clo.symbol, price |-> base,
   change |-> (Rand(seed, 2 * DemoLevels + 1) - 5) * 50,
   changePercent |-> (Rand(seed, 2 * DemoLevels + 2) - 5) * 20,
   volume |-> Rand(seed, 2 * DemoLevels + 3) * 100000,
   high |-> (base * 102) \div 100, low |-> (base * 98) \div 100,
   marketCap |-> IF clo.assetType = "stock" THEN Rand(seed, 2 * DemoLevels + 4) * 100000000 ELSE -1]

\* a faulty variant: the tick also moves the day's high to the new price
tickSummaryHigh(prev, base, currentPrice) ==
  [prev EXCEPT !.null = FALSE, !.price = currentPrice, !.change = currentPrice - base,
               !.changePercent = ((currentPrice - base) * 10000) \div base,
               !.high = base]

\* prev => ({...prev!, price, change, changePercent}) of the interval callback
tickSummary(prev, base, currentPrice) ==
  [prev EXCEPT !.null = FALSE, !.price = currentPrice, !.change = currentPrice - base,
               !.changePercent = ((currentPrice - base) * 10000) \div base]

\* the program's state as one record, for the handlers to pass along
Cur ==
  [orderBook |-> orderBook, trades |-> trades, isConnected |-> isConnected,
   assetType |-> assetType, symbol |-> symbol, provider |-> provider,
   marketData |-> marketData,
   ws |-> ws, reconnectTimeout |-> reconnectTimeout, demoInterval |-> demoInterval,
   tradeCounter |-> tradeCounter, rendered |-> rendered, obFresh |-> obFresh,
   status |-> status, sockets |-> sockets, timers |-> timers, intervals |-> intervals,
   heap |-> heap, now |-> now, arrivals |-> arrivals, used |-> used, screens |-> screens,
   isMarketOpen |-> isMarketOpen, marketIntervals |-> marketIntervals,
   marketCleanup |-> marketCleanup, bootMinute |-> bootMinute]

\* a state setter of a component that is not mounted does nothing
Mounted(S) == S.status = "mounted"

setIsConnected(S, v) == IF Mounted(S) THEN [S EXCEPT !.isConnected = v] ELSE S

setMarketData(S, v) == IF Mounted(S) THEN [S EXCEPT !.marketData = v] ELSE S

setIsMarketOpen(S, v) == IF Mounted(S) THEN [S EXCEPT !.isMarketOpen = v] ELSE S

-----------------------------------------------------------------------------
(* Market hours.  `new Date()` is the local clock of the device: bootMinute is the minute
   of the week (0 = Sunday 00:00) at which the provider was constructed, and the clock
   has moved on by `now` milliseconds since. *)
MinuteMs == 60 * 1000
DayMinutes == 24 * 60
WeekMinutes == 7 * DayMinutes

\* Monday 09:29, the construction time where no other is drawn
BootDefault == DayMinutes + 9 * 60 + 29

\* the minute of the week of `new Date()` in state S
wallMinute(S) == (S.bootMinute + S.now \div MinuteMs) % WeekMinutes

getDay(w) == w \div DayMinutes
getHours(w) == (w % DayMinutes) \div 60
getMinutes(w) == w % 60

\* a faulty variant: open until 16:00 inclusive
isStockMarketOpenLate(day, hours, minutes) ==
  IF day = 0 \/ day = 6 THEN FALSE
  ELSE hours * 60 + minutes >= 9 * 60 + 30 /\ hours * 60 + minutes <= 16 * 60

\* isStockMarketOpen, of the day, hours and minutes its `new Date()` gives
isStockMarketOpen(day, hours, minutes) ==
  IF day = 0 \/ day = 6 THEN FALSE
  ELSE LET currentTime == hours * 60 + minutes
           marketOpen == 9 * 60 + 30
           marketClose == 16 * 60
       IN  currentTime >= marketOpen /\ currentTime < marketClose

\* checkMarket of the market-hours effect
checkMarket(S) ==
  LET w == wallMinute(S)
  IN  setIsMarketOpen(S, isStockMarketOpen(getDay(w), getHours(w), getMinutes(w)))

\* a faulty variant: a cleanup that leaves the interval running
marketEffectCleanupKeep(S) == [S EXCEPT !.marketCleanup = 0]

\* the cleanup the last run of the market-hours effect returned: clearInterval(interval)
marketEffectCleanup(S) ==
  IF S.marketCleanup # 0
  THEN [S EXCEPT !.marketIntervals = RemoveAt(S.marketIntervals, S.marketCleanup), !.marketCleanup = 0]
  ELSE S

\* the market-hours effect (dependency: assetType)
marketEffect(S, run) ==
  IF ~run THEN S
  ELSE IF S.assetType = "stock"
  THEN LET S1 == checkMarket(S)
       IN  [S1 EXCEPT !.marketIntervals = Append(S1.marketIntervals, [due |-> S.now + MarketCheckPeriod]),
                      !.marketCleanup = Len(S1.marketIntervals) + 1]
  ELSE setIsMarketOpen(S, TRUE)

\* setOrderBook with a new object holding new arrays
setOrderBookNew(S, bv) ==
  IF Mounted(S)
  THEN [S EXCEPT !.heap = S.heap \o <<bv.bids, bv.asks>>,
                 !.orderBook = Book(Len(S.heap) + 1, Len(S.heap) + 2, bv.lastUpdateId),
                 !.obFresh = TRUE]
  ELSE S

\* setOrderBook with a new object whose arrays are already in the heap
setOrderBookRef(S, book) ==
  IF Mounted(S) THEN [S EXCEPT !.orderBook = book, !.obFresh = TRUE] ELSE S

\* faulty variants: no slice, and a slice that drops the newest of the old entries
PrependUncapped(cap, t, prev) == <<t>> \o prev
PrependEvictHead(cap, t, prev) ==
  IF Len(prev) >= cap THEN <<t>> \o Tail(prev) ELSE <<t>> \o prev

\* [newTrade, ...prev].slice(0, 100); an entry of the list is the trade and the number of
\* its arrival (bookkeeping)
PrependCapped(cap, t, prev) == SubSeq(<<t>> \o prev, 1, Min(Len(prev) + 1, cap))

setTradesPrepend(S, t) ==
  IF Mounted(S)
  THEN [S EXCEPT !.trades = PrependCapped(TradeCap, [trade |-> t, seq |-> S.arrivals + 1], S.trades),
                 !.arrivals = S.arrivals + 1]
  ELSE S

-----------------------------------------------------------------------------
(* Platform objects.  A socket is [readyState, clo, fetch]: clo is the closure its handlers
   were made in, fetch the state of the snapshot request its onopen sends ("none",
   "pending", "done").  A timeout is [clo, due, closedAt], an interval [basePrice, due]. *)
Active(sock) == sock.readyState \in {"CONNECTING", "OPEN"}

\* WebSocket.close(): nothing on a socket that is closing or closed
close(S, i) ==
  IF i # 0 /\ Active(S.sockets[i])
  THEN [S EXCEPT !.sockets[i].readyState = "CLOSING"]
  ELSE S

\* if (reconnectTimeout.current) clearTimeout(reconnectTimeout.current)
clearReconnectTimeout(S) ==
  IF S.reconnectTimeout # 0
  THEN [S EXCEPT !.timers = RemoveAt(S.timers, S.reconnectTimeout), !.reconnectTimeout = 0]
  ELSE S

\* if (demoInterval.current) clearInterval(demoInterval.current)
clearDemoInterval(S) ==
  IF S.demoInterval # 0
  THEN [S EXCEPT !.intervals = RemoveAt(S.intervals, S.demoInterval), !.demoInterval = 0]
  ELSE S

\* a faulty variant: a demo source that does not report the connection
connectDemoMute(S, clo, seed) ==
  LET base == BasePriceCents(clo.symbol)
      S2 == setOrderBookNew(S, generateDemoOrderBook(base, seed, S.now))
      S3 == setMarketData(S2, demoSummary(clo, base, seed))
  IN  [S3 EXCEPT !.intervals = Append(S3.intervals, [basePrice |-> base, due |-> S.now + DemoPeriod]),
                 !.demoInterval = Len(S3.intervals) + 1]

\* setIsConnected(true), the first order book and summary, then setInterval(.., 1000)
connectDemo(S, clo, seed) ==
  LET base == BasePriceCents(clo.symbol)
      S1 == setIsConnected(S, TRUE)
      S2 == setOrderBookNew(S1, generateDemoOrderBook(base, seed, S.now))
      S3 == setMarketData(S2, demoSummary(clo, base, seed))
  IN  [S3 EXCEPT !.intervals = Append(S3.intervals, [basePrice |-> base, due |-> S.now + DemoPeriod]),
                 !.demoInterval = Len(S3.intervals) + 1]

\* the handlers of the new socket close over symbol, processOrderBookUpdate, processTrade
\* and the connect of the render that made this connectBinance
connectBinance(S, clo) ==
  [S EXCEPT !.sockets = Append(S.sockets,
                               [readyState |-> "CONNECTING",
                                clo |-> [clo EXCEPT !.assetType = clo.cbAsset],
                                fetch |-> "none"]),
            !.ws = Len(S.sockets) + 1]

connect(S, clo, seed) ==
  LET S1 == IF S.ws # 0 /\ S.sockets[S.ws].readyState = "OPEN" THEN close(S, S.ws) ELSE S
      S2 == clearDemoInterval(S1)
  IN  CASE clo.provider = "demo" -> connectDemo(S2, clo, seed)
        [] clo.provider = "binance" ->
             IF clo.assetType = "crypto" THEN connectBinance(S2, clo) ELSE connectDemo(S2, clo, seed)
        [] clo.provider \in {"alpaca", "polygon"} -> connectDemo(S2, clo, seed)
        [] OTHER -> S2

reconnect(S, seed) == connect(clearReconnectTimeout(S), S.rendered, seed)

\* the cleanup of the connect effect
cleanup(S) == clearDemoInterval(clearReconnectTimeout(close(S, S.ws)))

-----------------------------------------------------------------------------
(* Handlers of a socket *)
RECURSIVE applyBidEntries(_, _, _)
\* data.b.forEach(...): filter makes a new array, the index write and push change the
\* array in place; returns the heap and the array newOrderBook.bids ends up as
applyBidEntries(h, cur, es) ==
  IF es = <<>> THEN [heap |-> h, bids |-> cur]
  ELSE LET priceNum == parseFloat(Head(es)[1])
           amountNum == parseFloat(Head(es)[2])
           idx == {k \in 1..Len(h[cur]) : h[cur][k][1] = priceNum}
       IN  IF amountNum = 0
           THEN applyBidEntries(Append(h, SelectSeq(h[cur], LAMBDA l : l[1] # priceNum)),
                                Len(h) + 1, Tail(es))
           ELSE IF idx # {}
           THEN applyBidEntries(
                  [h EXCEPT ![cur][CHOOSE k \in idx : \A j \in idx : k <= j] = <<priceNum, amountNum>>],
                  cur, Tail(es))
           ELSE applyBidEntries([h EXCEPT ![cur] = Append(@, <<priceNum, amountNum>>)], cur, Tail(es))

\* { ...orderBook } of a null orderBook has no bids: the handler throws a TypeError
processOrderBookUpdate(S, clo, data) ==
  IF clo.provider = "binance" /\ data.e = "depthUpdate"
  THEN IF clo.ob.null THEN S
       ELSE LET r == applyBidEntries(S.heap, clo.ob.bids, data.b)
                h == [r.heap EXCEPT ![r.bids] = SortDesc(@), ![clo.ob.asks] = SortAsc(@)]
            IN  setOrderBookRef([S EXCEPT !.heap = h], Book(r.bids, clo.ob.asks, clo.ob.lastUpdateId))
  ELSE S

\* the Trade made of a trade event
tradeOf(data) ==
  [id |-> <<"live", data.t>>, price |-> parseFloat(data.p), amount |-> parseFloat(data.q),
   time |-> data.T, isBuyerMaker |-> data.m]

processTrade(S, clo, data) ==
  IF clo.provider = "binance" /\ data.e = "trade" THEN setTradesPrepend(S, tradeOf(data)) ELSE S

onopen(S, i) == [setIsConnected(S, TRUE) EXCEPT !.sockets[i].fetch = "pending"]

onmessage(S, i, data) ==
  IF data.e = "depthUpdate" THEN processOrderBookUpdate(S, S.sockets[i].clo, data)
  ELSE IF data.e = "trade" THEN processTrade(S, S.sockets[i].clo, data)
  ELSE S

\* onmessage of a frame that is no stream message; there is no try/catch: JSON.parse
\* throws, or `data.e` of an undefined data does, and the exception leaves the handler
\* before any state is set.  Returns the state and the exception thrown.
onmessageFrame(S, i, text) ==
  LET message == JSONparse(text)
  IN  IF ~message.ok THEN [state |-> S, thrown |-> "SyntaxError"]
      ELSE IF ~message.hasData THEN [state |-> S, thrown |-> "TypeError"]
      ELSE [state |-> S, thrown |-> "none"]

onerror(S, i) == setIsConnected(S, FALSE)

\* faulty variants: no reconnect, and a delay that depends on the timeouts pending
oncloseNoRetry(S, i) == setIsConnected(S, FALSE)
oncloseBackoff(S, i) ==
  LET S1 == setIsConnected(S, FALSE)
  IN  [S1 EXCEPT !.timers = Append(S1.timers, [clo |-> S.sockets[i].clo,
                                               due |-> S.now + ReconnectDelay \div (1 + Len(S1.timers)),
                                               closedAt |-> S.now]),
                 !.reconnectTimeout = Len(S1.timers) + 1]
\* reconnectTimeout.current = setTimeout(() => connect(), 3000)
onclose(S, i) ==
  LET S1 == setIsConnected(S, FALSE)
  IN  [S1 EXCEPT !.timers = Append(S1.timers, [clo |-> S.sockets[i].clo,
                                               due |-> S.now + ReconnectDelay,
                                               closedAt |-> S.now]),
                 !.reconnectTimeout = Len(S1.timers) + 1]

\* the .then chain of the snapshot request
installSnapshot(S, snapshot) ==
  setOrderBookNew(S, [bids |-> [k \in 1..Len(snapshot.bids) |->
                                  <<parseFloat(snapshot.bids[k][1]), parseFloat(snapshot.bids[k][2])>>],
                      asks |-> [k \in 1..Len(snapshot.asks) |->
                                  <<parseFloat(snapshot.asks[k][1]), parseFloat(snapshot.asks[k][2])>>],
                      lastUpdateId |-> snapshot.lastUpdateId])

-----------------------------------------------------------------------------
(* Normal form of a state: sockets that are closed and whose snapshot request is settled
   can raise no further event and are dropped (a reference to one reads as null: close()
   and the readyState test do nothing on it); arrays no book refers to are collected and
   the others renumbered in the order the state names them. *)
Dead(sock) == sock.readyState = "CLOSED" /\ sock.fetch # "pending"

RECURSIVE dropDead(_, _)
dropDead(S, i) ==
  IF i = 0 THEN S
  ELSE IF Dead(S.sockets[i])
  THEN dropDead([S EXCEPT !.sockets = RemoveAt(S.sockets, i), !.ws = ShiftRef(S.ws, i)], i - 1)
  ELSE dropDead(S, i - 1)

booksOf(S) ==
  <<S.orderBook, S.rendered.ob>>
    \o [k \in 1..Len(S.sockets) |-> S.sockets[k].clo.ob]
    \o [k \in 1..Len(S.timers) |-> S.timers[k].clo.ob]

RECURSIVE arraysOf(_, _)
\* the arrays the books bs refer to, each once, in order; seen: those already listed
arraysOf(bs, seen) ==
  IF bs = <<>> THEN seen
  ELSE LET b == Head(bs)
           s1 == IF b.null \/ (\E k \in 1..Len(seen) : seen[k] = b.bids) THEN seen ELSE Append(seen, b.bids)
           s2 == IF b.null \/ (\E k \in 1..Len(s1) : s1[k] = b.asks) THEN s1 ELSE Append(s1, b.asks)
       IN  arraysOf(Tail(bs), s2)

collect(S) ==
  LET order == arraysOf(booksOf(S), <<>>)
      pos(id) == CHOOSE k \in 1..Len(order) : order[k] = id
      book(b) == IF b.null THEN b ELSE [b EXCEPT !.bids = pos(b.bids), !.asks = pos(b.asks)]
  IN  [S EXCEPT !.heap = [k \in 1..Len(order) |-> S.heap[order[k]]],
                !.orderBook = book(S.orderBook),
                !.rendered.ob = book(S.rendered.ob),
                !.sockets = [k \in 1..Len(S.sockets) |-> [S.sockets[k] EXCEPT !.clo.ob = book(@)]],
                !.timers = [k \in 1..Len(S.timers) |-> [S.timers[k] EXCEPT !.clo.ob = book(@)]]]

Normal(S) == LET S1 == dropDead(S, Len(S.sockets)) IN collect(S1)

\* the step to the normal form of S0; the exploration holds at most MaxSockets sockets that
\* can still raise an event and MaxTimers reconnect timeouts
Become(S0) ==
  \E S \in {Normal(S0)} :
      /\ Len(S.sockets) <= MaxSockets /\ Len(S.timers) <= MaxTimers
      /\ orderBook' = S.orderBook
      /\ trades' = S.trades
      /\ isConnected' = S.isConnected
      /\ assetType' = S.assetType
      /\ symbol' = S.symbol
      /\ provider' = S.provider
      /\ marketData' = S.marketData
      /\ ws' = S.ws
      /\ reconnectTimeout' = S.reconnectTimeout
      /\ demoInterval' = S.demoInterval
      /\ tradeCounter' = S.tradeCounter
      /\ rendered' = S.rendered
      /\ obFresh' = S.obFresh
      /\ status' = S.status
      /\ sockets' = S.sockets
      /\ timers' = S.timers
      /\ intervals' = S.intervals
      /\ heap' = S.heap
      /\ now' = S.now
      /\ arrivals' = S.arrivals
      /\ used' = S.used
      /\ screens' = S.screens
      /\ isMarketOpen' = S.isMarketOpen
      /\ marketIntervals' = S.marketIntervals
      /\ marketCleanup' = S.marketCleanup
      /\ bootMinute' = S.bootMinute

-----------------------------------------------------------------------------
(* The state after construction: useState and useRef initial values, nothing rendered *)
\* the screens' memos and state before their first render
NoScreens ==
  [renders |-> 0, bookMemo |-> FALSE, tradesMemo |-> FALSE, bidsWithTotal |-> <<>>, asksWithTotal |-> <<>>, maxTotal |-> 0, spread |-> 0,
   heatmapData |-> <<>>, priceRange |-> [min |-> 0, max |-> 0],
   chartData |-> <<>>, stats |-> [volume24h |-> 0, high24h |-> 0, low24h |-> 0,
                                  avgPrice |-> 0, buyVolume |-> 0, sellVolume |-> 0]]

NoneUsed == [opens |-> 0, drops |-> 0, fails |-> 0, user |-> 0, msgs |-> 0, ticks |-> 0, time |-> 0]

InitState ==
  [orderBook |-> NullBook, trades |-> <<>>, isConnected |-> FALSE,
   assetType |-> "crypto", symbol |-> DEFAULT_SYMBOLS("crypto"), provider |-> "demo",
   marketData |-> NullSummary,
   ws |-> 0, reconnectTimeout |-> 0, demoInterval |-> 0, tradeCounter |-> 0,
   rendered |-> [provider |-> "demo", assetType |-> "crypto", symbol |-> DEFAULT_SYMBOLS("crypto"),
                 ob |-> NullBook, cbAsset |-> "crypto"],
   obFresh |-> FALSE, status |-> "init",
   sockets |-> <<>>, timers |-> <<>>, intervals |-> <<>>, heap |-> <<>>, now |-> 0,
   arrivals |-> 0, used |-> NoneUsed, screens |-> NoScreens,
   isMarketOpen |-> TRUE, marketIntervals |-> <<>>, marketCleanup |-> 0, bootMinute |-> BootDefault]

\* the state is S
Is(S) ==
  /\ orderBook = S.orderBook
  /\ trades = S.trades
  /\ isConnected = S.isConnected
  /\ assetType = S.assetType
  /\ symbol = S.symbol
  /\ provider = S.provider
  /\ marketData = S.marketData
  /\ ws = S.ws
  /\ reconnectTimeout = S.reconnectTimeout
  /\ demoInterval = S.demoInterval
  /\ tradeCounter = S.tradeCounter
  /\ rendered = S.rendered
  /\ obFresh = S.obFresh
  /\ status = S.status
  /\ sockets = S.sockets
  /\ timers = S.timers
  /\ intervals = S.intervals
  /\ heap = S.heap
  /\ now = S.now
  /\ arrivals = S.arrivals
  /\ used = S.used
  /\ screens = S.screens
  /\ isMarketOpen = S.isMarketOpen
  /\ marketIntervals = S.marketIntervals
  /\ marketCleanup = S.marketCleanup
  /\ bootMinute = S.bootMinute

Init == Is(InitState)

\* connect is a new function: one of its dependencies changed since the last render
connectChanged(S) ==
  \/ S.obFresh
  \/ S.provider # S.rendered.provider
  \/ S.assetType # S.rendered.assetType
  \/ S.symbol # S.rendered.symbol

\* connectBinance is a new function (symbol, processOrderBookUpdate, processTrade)
connectBinanceChanged(S) ==
  \/ S.obFresh
  \/ S.provider # S.rendered.provider
  \/ S.symbol # S.rendered.symbol

\* the closure of the callbacks of a render of state S
renderClosure(S) ==
  [provider |-> S.provider, assetType |-> S.assetType, symbol |-> S.symbol, ob |-> S.orderBook,
   cbAsset |-> IF S.status = "init" \/ connectBinanceChanged(S) THEN S.assetType ELSE S.rendered.cbAsset]

\* a faulty variant: an assetType effect that leaves the symbol alone
symbolEffectKeep(S, run) == S

\* setSymbol(DEFAULT_SYMBOLS[assetType]) of the assetType effect
symbolEffect(S, run) == IF run THEN [S EXCEPT !.symbol = DEFAULT_SYMBOLS(S.assetType)] ELSE S

\* a render and its effects: the cleanups of the effects whose dependencies changed, then
\* the effects in the order of their declaration
commit(S, seed) ==
  LET first == S.status = "init"
      clo == renderClosure(S)
      assetChanged == first \/ S.assetType # S.rendered.assetType
      S1 == [S EXCEPT !.status = "mounted", !.rendered = clo, !.obFresh = FALSE]
      S2 == IF first THEN S1 ELSE cleanup(IF assetChanged THEN marketEffectCleanup(S1) ELSE S1)
      S3 == marketEffect(symbolEffect(S2, assetChanged), assetChanged)
  IN  connect(S3, clo, seed)

-----------------------------------------------------------------------------
(* Steps.  `used` counts the events of the environment, which the bounds limit. *)
Count(S, what) == [S EXCEPT !.used[what] = @ + 1]

SocketIds == 1..Len(sockets)

\* React renders and runs the effects
Commit ==
  /\ status = "init" \/ (status = "mounted" /\ connectChanged(Cur))
  /\ \E seed \in Seeds : Become(commit(Cur, seed))

\* SettingsScreen: setSymbol(newSymbol); reconnect()
HandleSymbolChange(newSymbol) ==
  /\ status = "mounted" /\ used.user < MaxUser
  /\ \E seed \in Seeds : Become(Count(reconnect([Cur EXCEPT !.symbol = newSymbol], seed), "user"))

\* SettingsScreen: setAssetType(newType); setProvider('demo')
HandleAssetTypeChange(newType) ==
  /\ status = "mounted" /\ used.user < MaxUser
  /\ Become(Count([Cur EXCEPT !.assetType = newType, !.provider = "demo"], "user"))

\* SettingsScreen: setProvider(newProvider); reconnect(), from the picker of the asset type
HandleProviderChange(newProvider) ==
  /\ status = "mounted" /\ used.user < MaxUser
  /\ newProvider \in PROVIDERS(assetType) /\ newProvider # provider
  /\ \E seed \in Seeds : Become(Count(reconnect([Cur EXCEPT !.provider = newProvider], seed), "user"))

\* the provider is removed: the cleanup of the connect effect runs
Unmount ==
  /\ status = "mounted" /\ used.user < MaxUser
  /\ Become(Count(cleanup(marketEffectCleanup([Cur EXCEPT !.status = "unmounted"])), "user"))

\* the connection of socket i is established
SocketOpen(i) ==
  /\ sockets[i].readyState = "CONNECTING" /\ used.opens < MaxOpens
  /\ Become(Count(onopen([Cur EXCEPT !.sockets[i].readyState = "OPEN"], i), "opens"))

\* the snapshot request of socket i is answered
SnapshotArrives(i, snapshot) ==
  /\ sockets[i].fetch = "pending"
  /\ Become(installSnapshot([Cur EXCEPT !.sockets[i].fetch = "done"], snapshot))

\* the snapshot request fails, or its answer has no bids: .catch(console.error)
SnapshotFails(i) ==
  /\ sockets[i].fetch = "pending"
  /\ Become([Cur EXCEPT !.sockets[i].fetch = "done"])

\* a message of the stream is delivered to an open socket
SocketMessage(i, data) ==
  /\ sockets[i].readyState = "OPEN" /\ used.msgs < MaxMsgs
  /\ Become(Count(onmessage(Cur, i, data), "msgs"))

\* a frame that is no stream message is delivered to an open socket
SocketFrame(i, text) ==
  /\ sockets[i].readyState = "OPEN" /\ used.msgs < MaxMsgs
  /\ Become(Count(onmessageFrame(Cur, i, text).state, "msgs"))

\* the connection fails: the error event, then the close event
SocketError(i) ==
  /\ Active(sockets[i]) /\ used.drops < MaxDrops
  /\ Become(Count(Count(onclose(onerror([Cur EXCEPT !.sockets[i].readyState = "CLOSED"], i), i),
                        "fails"), "drops"))

\* the server ends the connection
ServerClose(i) ==
  /\ Active(sockets[i]) /\ used.drops < MaxDrops
  /\ Become(Count(onclose([Cur EXCEPT !.sockets[i].readyState = "CLOSED"], i), "drops"))

\* the close event of a socket the program closed
CloseEvent(i) ==
  /\ sockets[i].readyState = "CLOSING"
  /\ Become(onclose([Cur EXCEPT !.sockets[i].readyState = "CLOSED"], i))

\* a reconnect timeout runs its callback: connect() of the closure it was made in
TimerFire(j) ==
  /\ timers[j].due <= now
  /\ \E seed \in Seeds :
       Become(connect([Cur EXCEPT !.timers = RemoveAt(timers, j),
                                  !.reconnectTimeout = ShiftRef(reconnectTimeout, j)],
                      timers[j].clo, seed))

\* the callback of a demo interval
demoTick(S, k, draw, seed) ==
  LET currentPrice == TickPrice(S.intervals[k].basePrice, draw)
      S1 == setOrderBookNew(S, generateDemoOrderBook(currentPrice, seed, S.now))
      newTrade == generateDemoTrade(currentPrice, S.tradeCounter, seed, S.now)
      S2 == setTradesPrepend([S1 EXCEPT !.tradeCounter = @ + 1], newTrade)
      S3 == setMarketData(S2, tickSummary(S2.marketData, S.intervals[k].basePrice, currentPrice))
  IN  [S3 EXCEPT !.intervals[k].due = S.now + DemoPeriod]

DemoTick(k) ==
  /\ intervals[k].due <= now /\ used.ticks < MaxTicks
  /\ \E draw \in TickDraws, seed \in Seeds : Become(Count(demoTick(Cur, k, draw, seed), "ticks"))

\* Time passes.  A close handshake the program began does not outlast a step of the clock,
\* nor does a render React has pending; in demo mode every render schedules the next one
\* (connectDemo sets the order book, which makes connect a new function), so there the
\* clock runs with a render pending.
Advance ==
  /\ used.time < MaxTime
  /\ \/ \E j \in 1..Len(timers) : timers[j].due > now
     \/ \E k \in 1..Len(intervals) : intervals[k].due > now
  /\ \A i \in SocketIds : sockets[i].readyState # "CLOSING"
  /\ ~(status = "mounted" /\ connectChanged(Cur) /\ intervals = <<>>)
  /\ Become(Count([Cur EXCEPT !.now = @ + TimeStep], "time"))

Next ==
  \/ Commit
  \/ \E s \in Symbols : HandleSymbolChange(s)
  \/ \E t \in AssetTypes : HandleAssetTypeChange(t)
  \/ \E p \in Providers : HandleProviderChange(p)
  \/ Unmount
  \/ \E i \in SocketIds : SocketOpen(i)
  \/ \E i \in SocketIds, snapshot \in Snapshots : SnapshotArrives(i, snapshot)
  \/ \E i \in SocketIds : SnapshotFails(i)
  \/ \E i \in SocketIds, data \in Messages : SocketMessage(i, data)
  \/ \E i \in SocketIds, text \in MalformedFrames : SocketFrame(i, text)
  \/ \E i \in SocketIds : SocketError(i)
  \/ \E i \in SocketIds : ServerClose(i)
  \/ \E i \in SocketIds : CloseEvent(i)
  \/ \E j \in 1..Len(timers) : TimerFire(j)
  \/ \E k \in 1..Len(intervals) : DemoTick(k)
  \/ Advance

Spec == Init /\ [][Next]_vars

-----------------------------------------------------------------------------
(* A demo session that has run for PreTrades ticks: the state reached from the state
   after construction by the first render and PreTrades periods of the demo interval, each
   ended by its tick.  The bounds count from there. *)
RECURSIVE ticked(_, _, _, _)
ticked(S, n, draw, seed) ==
  LET T == demoTick([S EXCEPT !.now = @ + DemoPeriod], S.demoInterval, draw, seed)
  IN  IF n > 0 /\ T.now > S.now THEN ticked(T, n - 1, draw, seed) ELSE S

InitTrades ==
  \E seed \in Seeds, draw \in TickDraws :
    Is(Normal(ticked(commit(InitState, seed), PreTrades, draw, seed)))

SpecTrades == InitTrades /\ [][Next]_vars

-----------------------------------------------------------------------------
(* generateDemoOrderBook at the prices the interval callback passes for a symbol that
   DEMO_PRICES does not hold (base price 100): currentPrice is a double anywhere within
   0.05% of the base price, here in thousandths of a cent.  The level prices below agree
   with the doubles the code computes at every price of FinePrices. *)
SubCent == 1000

FinePrices ==
  LET base == DefaultDemoPrice * 100 * SubCent
  IN  (base - base \div 2000)..(base + base \div 2000)

\* parseFloat((basePrice -/+ spread -/+ i * spread).toFixed(2)), k = i + 1, in cents;
\* sign -1: bid, 1: ask
demoLevel(p, k, sign) ==
  (p \div SubCent) + (10000 * (p % SubCent) + sign * k * p + 5000 * SubCent) \div (10000 * SubCent)

generateDemoOrderBookAt(p, seed, t) ==
  [bids |-> [k \in 1..DemoLevels |-> <<demoLevel(p, k, -1), RandomAmount(seed, 2 * k - 1)>>],
   asks |-> [k \in 1..DemoLevels |-> <<demoLevel(p, k, 1), RandomAmount(seed, 2 * k)>>],
   lastUpdateId |-> t]

\* the order book is the value of generateDemoOrderBook(p)
GenerateDemoBook(p) ==
  \E seed \in Seeds : \E bv \in {generateDemoOrderBookAt(p, seed, now)} :
    Become([Cur EXCEPT !.heap = <<bv.bids, bv.asks>>, !.orderBook = Book(1, 2, bv.lastUpdateId)])

NextDemoBook == \E p \in FinePrices : GenerateDemoBook(p)

SpecDemoBook == Init /\ [][NextDemoBook]_vars

-----------------------------------------------------------------------------
(* The consumers of the context: OrderBookScreen, HeatmapScreen and TradesScreen.  A screen
   reads orderBook and trades from the context and keeps its memos and state to itself
   (`screens`).  An array a screen works on is [alias, items]: alias tells whether it is
   the context's own array (a write in place then reaches the context) or a new one. *)
\* a faulty variant: a slice that hands out the array itself
sliceAlias(xs, n) == [alias |-> TRUE, items |-> xs]

\* xs.slice(0, n): a new array
slice(xs, n) == [alias |-> FALSE, items |-> SubSeq(xs, 1, Min(n, Len(xs)))]

Reverse(xs) == [k \in 1..Len(xs) |-> xs[Len(xs) + 1 - k]]

RECURSIVE SumOf(_)
SumOf(ns) == IF ns = <<>> THEN 0 ELSE Head(ns) + SumOf(Tail(ns))

MaxOf(ns) == CHOOSE m \in {ns[k] : k \in 1..Len(ns)} : \A k \in 1..Len(ns) : ns[k] <= m
MinOf(ns) == CHOOSE m \in {ns[k] : k \in 1..Len(ns)} : \A k \in 1..Len(ns) : m <= ns[k]

\* a faulty variant: the total of a row is its own amount
withTotalFlat(xs) ==
  [k \in 1..Len(xs) |-> [price |-> xs[k][1], amount |-> xs[k][2], total |-> xs[k][2]]]

\* .map(([price, amount]) => { total += amount; return { price, amount, total } })
withTotal(xs) ==
  [k \in 1..Len(xs) |->
     [price |-> xs[k][1], amount |-> xs[k][2], total |-> SumOf([j \in 1..k |-> xs[j][2]])]]

\* OrderBookScreen: the useMemo hooks on [orderBook], and asksWithTotal.reverse() in the
\* JSX, which reverses the memo's array in place at every render
orderBookScreenRender(S, changed) ==
  LET compute == changed \/ ~S.screens.bookMemo
      null == S.orderBook.null
      bids == IF null THEN <<>> ELSE withTotal(slice(S.heap[S.orderBook.bids], OrderBookRows).items)
      asks == IF null THEN <<>> ELSE withTotal(slice(S.heap[S.orderBook.asks], OrderBookRows).items)
      total(xs) == IF xs = <<>> THEN 0 ELSE xs[Len(xs)].total
      memoBids == IF compute THEN bids ELSE S.screens.bidsWithTotal
      memoAsks == IF compute THEN asks ELSE S.screens.asksWithTotal
  IN  [S EXCEPT !.screens.renders = @ + 1,
                !.screens.bookMemo = TRUE,
                !.screens.bidsWithTotal = memoBids,
                !.screens.asksWithTotal = Reverse(memoAsks),
                !.screens.maxTotal = IF compute THEN (IF total(bids) > total(asks) THEN total(bids) ELSE total(asks)) ELSE @,
                !.screens.spread = IF ~compute THEN @
                                   ELSE IF null \/ bids = <<>> \/ asks = <<>> THEN 0
                                   ELSE asks[1].price - bids[1].price]

\* HeatmapScreen: the effect on [orderBook]
heatmapScreenEffect(S) ==
  IF S.orderBook.null THEN [S EXCEPT !.screens.renders = @ + 1]
  ELSE LET bids == slice(S.heap[S.orderBook.bids], HeatmapLevels).items
           asks == slice(S.heap[S.orderBook.asks], HeatmapLevels).items
           cell(l, type) == [price |-> l[1], amount |-> l[2], timestamp |-> S.now, type |-> type]
           newColumn == [k \in 1..Len(bids) |-> cell(bids[k], "bid")]
                          \o [k \in 1..Len(asks) |-> cell(asks[k], "ask")]
           updated == Append(S.screens.heatmapData, newColumn)
           prices == [k \in 1..Len(newColumn) |-> newColumn[k].price]
       IN  [S EXCEPT !.screens.renders = @ + 1,
                     !.screens.heatmapData =
                        IF Len(updated) > HeatmapColumns
                        THEN SubSeq(updated, Len(updated) - HeatmapColumns + 1, Len(updated))
                        ELSE updated,
                     !.screens.priceRange =
                        IF newColumn = <<>> THEN @ ELSE [min |-> MinOf(prices), max |-> MaxOf(prices)]]

\* TradesScreen: the useMemo hooks on [trades]; trades.slice(0, 20).reverse() reverses the
\* array the slice returned, in place
tradesScreenRender(S, changed) ==
  IF ~(changed \/ ~S.screens.tradesMemo) THEN [S EXCEPT !.screens.renders = @ + 1]
  ELSE IF S.trades = <<>>
  THEN [S EXCEPT !.screens.renders = @ + 1, !.screens.tradesMemo = TRUE,
                 !.screens.chartData = <<0>>, !.screens.stats = NoScreens.stats]
  ELSE LET r == slice(S.trades, ChartTrades)
           recentTrades == Reverse(r.items)
           S1 == IF r.alias THEN [S EXCEPT !.trades = recentTrades] ELSE S
           ts == S1.trades
           prices == [k \in 1..Len(ts) |-> ts[k].trade.price]
           amounts(maker) == [k \in 1..Len(ts) |->
                                IF ts[k].trade.isBuyerMaker = maker THEN ts[k].trade.amount ELSE 0]
       IN  [S1 EXCEPT !.screens.renders = @ + 1, !.screens.tradesMemo = TRUE,
                      !.screens.chartData = [k \in 1..Len(recentTrades) |-> recentTrades[k].trade.price],
                      !.screens.stats = [volume24h |-> SumOf([k \in 1..Len(ts) |-> ts[k].trade.amount]),
                                         high24h |-> MaxOf(prices), low24h |-> MinOf(prices),
                                         avgPrice |-> SumOf(prices) \div Len(prices),
                                         buyVolume |-> SumOf(amounts(FALSE)),
                                         sellVolume |-> SumOf(amounts(TRUE))]]

RenderOrderBookScreen ==
  /\ status = "mounted" /\ screens.renders < MaxRenders
  /\ \E changed \in BOOLEAN : Become(orderBookScreenRender(Cur, changed))

RenderHeatmapScreen ==
  /\ status = "mounted" /\ screens.renders < MaxRenders
  /\ Become(heatmapScreenEffect(Cur))

RenderTradesScreen ==
  /\ status = "mounted" /\ screens.renders < MaxRenders
  /\ \E changed \in BOOLEAN : Become(tradesScreenRender(Cur, changed))

\* a demo session that has run for up to ScreenTrades ticks, shown by the screens
InitScreens ==
  \E seed \in Seeds, draw \in TickDraws, n \in 0..ScreenTrades :
    Is(Normal(ticked(commit(InitState, seed), n, draw, seed)))

NextScreens == RenderOrderBookScreen \/ RenderHeatmapScreen \/ RenderTradesScreen

SpecScreens == InitScreens /\ [][NextScreens]_vars

-----------------------------------------------------------------------------
(* What the screens read *)
Bids == IF orderBook.null THEN <<>> ELSE heap[orderBook.bids]
Asks == IF orderBook.null THEN <<>> ELSE heap[orderBook.asks]

BookValue ==
  IF orderBook.null THEN <<>> ELSE <<Bids, Asks, orderBook.lastUpdateId>>

ActiveSockets == {i \in SocketIds : Active(sockets[i])}

\* the selection a closure was made for is the current one
SameSelection(clo) == clo.provider = provider /\ clo.assetType = assetType /\ clo.symbol = symbol

\* live mode: connect() of this selection opens a socket
Live(clo) == clo.provider = "binance" /\ clo.assetType = "crypto"

\* a step that calls connectBinance
ConnectsLive ==
  \/ Commit /\ Live(renderClosure(Cur))
  \/ \E s \in Symbols : HandleSymbolChange(s) /\ Live(rendered)
  \/ \E p \in Providers : HandleProviderChange(p) /\ Live(rendered)
  \/ \E j \in 1..Len(timers) : TimerFire(j) /\ Live(timers[j].clo)

\* the entries of a side of a depth update that are the last word on their price and have
\* a size other than 0, as levels
SetLevels(side) ==
  {<<parseFloat(side[n][1]), parseFloat(side[n][2])>> :
     n \in {m \in 1..Len(side) : /\ parseFloat(side[m][2]) # 0
                                 /\ \A j \in (m + 1)..Len(side) : side[j][1] # side[m][1]}}

\* the levels xs hold level l, and no other level at its price
HoldsOnce(xs, l) ==
  /\ \E k \in 1..Len(xs) : xs[k] = l
  /\ Cardinality({k \in 1..Len(xs) : xs[k][1] = l[1]}) = 1

\* the levels of a side of a depth update that have size 0
ZeroLevels(side) == {parseFloat(side[k][1]) : k \in {n \in 1..Len(side) : parseFloat(side[n][2]) = 0}}

-----------------------------------------------------------------------------
(* Properties *)

\* C1: every price level a depth update applied by processOrderBookUpdate lists with size
\* 0, on the bid side (b) or on the ask side (a), is absent from that side of the order
\* book after the update.
C1_ZeroSizeLevelsRemoved ==
  [][\A i \in SocketIds, data \in DepthUpdates :
       (SocketMessage(i, data) /\ status = "mounted" /\ ~sockets[i].clo.ob.null) =>
         /\ ZeroLevels(data.b) \cap Prices(Bids') = {}
         /\ ZeroLevels(data.a) \cap Prices(Asks') = {}]_vars

\* C2: in every state in which the order book is not null its bids are sorted by falling
\* price and its asks by rising price (after a demo book, a live snapshot, a depth update).
C2_BookSorted ==
  ~orderBook.null =>
    /\ \A k \in 1..(Len(Bids) - 1) : Bids[k][1] >= Bids[k + 1][1]
    /\ \A k \in 1..(Len(Asks) - 1) : Asks[k][1] <= Asks[k + 1][1]

\* a depth update has pushed a bid level, which the sort moved up from the end
C2_Witness ==
  /\ ~orderBook.null
  /\ \E u \in DepthUpdates, n \in 1..2, k \in 1..(Len(Bids) - 1) :
       /\ n <= Len(u.b) /\ parseFloat(u.b[n][2]) # 0
       /\ Bids[k] = <<parseFloat(u.b[n][1]), parseFloat(u.b[n][2])>>
       /\ Bids[k][1] > Bids[k + 1][1]
       /\ k > 1 /\ Bids[k - 1][1] - Bids[k + 1][1] = LevelOffset(BasePriceCents(symbol), 1)

\* C3: the trade list never holds more than 100 entries, whatever demo ticks, live trade
\* events, reconnects and selection changes have happened.
C3_TradesCapped == Len(trades) <= TradeCap

\* the list is full and a trade has arrived since
C3_Witness == Len(trades) = TradeCap /\ arrivals = TradeCap + 1

\* C4: a new trade goes to the head of the list, the trades already there keep their
\* order and the oldest (the tail) is evicted beyond 100 entries: the list is the most
\* recent arrivals, newest first.
C4_NewestFirst ==
  /\ Len(trades) = Min(arrivals, TradeCap)
  /\ \A k \in 1..Len(trades) : trades[k].seq = arrivals - k + 1

\* a demo trade and a live trade have arrived, the list is full and the oldest is gone
C4_Witness ==
  /\ arrivals > TradeCap
  /\ trades[Len(trades)].seq = arrivals - TradeCap + 1
  /\ \E k \in 1..2 : trades[k].trade.id[1] = "live"
  /\ \E k \in 1..2 : trades[k].trade.id[1] = "trade"

\* C5: while the provider is mounted at most one socket is connecting or open and at most
\* one demo interval exists.
C5_OneDataSource ==
  status = "mounted" => Cardinality(ActiveSockets) <= 1 /\ Len(intervals) <= 1

\* C6: in no state are a demo interval and a live socket (connecting or open) both active.
C6_DemoLiveExclusive == ~(intervals # <<>> /\ ActiveSockets # {})

\* C7: after a change of selection the previous source is torn down for good: once the
\* new source is established (the render of the change has run its effects) no reconnect
\* timeout of a source of another selection fires.
C7_NoStaleReconnect ==
  [][\A j \in 1..Len(timers) :
       (TimerFire(j) /\ status = "mounted" /\ ~connectChanged(Cur)) => SameSelection(timers[j].clo)]_vars

\* C8: once a socket has been torn down (closed by the program) the answer to its snapshot
\* request changes neither the order book nor the trade list.
C8_NoLateWriter ==
  [][\A i \in SocketIds, snapshot \in Snapshots :
       (SnapshotArrives(i, snapshot) /\ ~Active(sockets[i])) =>
         BookValue' = BookValue /\ trades' = trades]_vars

C10_ErrorClearsFlagAndSchedules ==
  [][\A i \in SocketIds :
       (SocketError(i) /\ status = "mounted") =>
         /\ ~isConnected'
         /\ reconnectTimeout' = Len(timers') /\ reconnectTimeout' > 0
         /\ timers'[reconnectTimeout'].due = now + ReconnectDelay
         /\ timers'[reconnectTimeout'].clo.symbol = sockets[i].clo.symbol]_vars

\* an open socket has failed: the flag is down and its reconnect is pending
C10_Witness ==
  /\ status = "mounted" /\ used.fails > 0 /\ used.opens > 0
  /\ ~isConnected /\ reconnectTimeout # 0 /\ timers[reconnectTimeout].due > now

\* C11: in live mode a depth update is applied only to the order book the snapshot of the
\* current connection installed: while the snapshot request of the socket is not answered
\* (the book is null or still that of the previous source) a depth update changes nothing.
C11_UpdatesAfterSnapshot ==
  [][\A i \in SocketIds, data \in DepthUpdates :
       (SocketMessage(i, data) /\ status = "mounted" /\ sockets[i].fetch # "done") =>
         BookValue' = BookValue]_vars

\* C12: every entry of a depth update with a size other than 0 sets its level on its side:
\* after the update the bids hold each such entry of b, and the asks each such entry of a,
\* as one level with the size of the entry (replaced if the price was there, added if not).
C12_NonZeroLevelsUpserted ==
  [][\A i \in SocketIds, data \in DepthUpdates :
       (SocketMessage(i, data) /\ status = "mounted" /\ ~sockets[i].clo.ob.null) =>
         /\ \A l \in SetLevels(data.b) : HoldsOnce(Bids', l)
         /\ \A l \in SetLevels(data.a) : HoldsOnce(Asks', l)]_vars

\* C13: every selection that is no supported live feed (binance with stocks, alpaca,
\* polygon, any other value of the provider picker such as coinbase) falls back to demo
\* mode: the render of such a selection ends with the demo interval running and
\* isConnected true.
C13_FallsBackToDemo ==
  [][(Commit /\ ~Live(renderClosure(Cur))) =>
       /\ demoInterval' # 0 /\ intervals' # <<>>
       /\ isConnected']_vars

C15_SwitchClearsTrades ==
  [][(/\ Commit /\ status = "mounted" /\ Live(rendered)
      /\ (symbol # rendered.symbol \/ provider # rendered.provider)) =>
       \A k \in 1..Len(trades') : trades'[k].trade.id[1] = "live" => trades'[k].seq > arrivals]_vars

\* C16: a frame that fails to parse (text that is no JSON, JSON without the data
\* envelope) is dropped silently: order book, trades and connection flag are unchanged,
\* the socket stays open, and the handler raises no error.
C16_MalformedDroppedSilently ==
  [][\A i \in SocketIds, text \in MalformedFrames :
       SocketFrame(i, text) =>
         /\ BookValue' = BookValue /\ trades' = trades /\ isConnected' = isConnected
         /\ \E k \in 1..Len(sockets') : sockets'[k] = sockets[i]
         /\ onmessageFrame(Cur, i, text).thrown = "none"]_vars

\* C17: while demo mode is selected the demo ticks keep coming at the fixed interval; the
\* state updates of the demo source itself never prevent the next tick: a render caused by
\* nothing but the order book the demo source set (the selection is the one rendered)
\* leaves the running demo interval in place.  (The clock of the model is too coarse to
\* tell the interval such a render starts from the one it clears, so the statement is
\* about the cleanup the render runs.)
C17_OwnUpdatesKeepInterval ==
  [][(Commit /\ status = "mounted" /\ SameSelection(rendered) /\ demoInterval # 0) =>
       cleanup(Cur).intervals = intervals]_vars

\* C18: the market summary is recomputed on each tick: after every live trade event (as
\* after every demo tick) its symbol is the selected symbol and its last price is the
\* price of that trade.
C18_SummaryFollowsTrade ==
  [][\A i \in SocketIds, data \in TradeEvents :
       (SocketMessage(i, data) /\ status = "mounted" /\ SameSelection(sockets[i].clo)) =>
         /\ ~marketData'.null
         /\ marketData'.symbol = symbol
         /\ marketData'.price = parseFloat(data.p)]_vars

\* C19: the update identifier of the order book grows with every book installed, through
\* demo ticks, live snapshots and depth updates: the book a depth update installs has an
\* identifier greater than that of the book it replaces.
C19_UpdateIdGrows ==
  [][\A i \in SocketIds, data \in DepthUpdates :
       (/\ SocketMessage(i, data) /\ status = "mounted"
        /\ ~sockets[i].clo.ob.null /\ ~orderBook.null) =>
         orderBook'.lastUpdateId > orderBook.lastUpdateId]_vars

\* C20: no price occurs twice on a side of the order book: in the demo books, in the
\* live snapshot, and after any depth updates (one naming a price twice included).
C20_NoDuplicatePrices ==
  ~orderBook.null =>
    /\ Cardinality(Prices(Bids)) = Len(Bids)
    /\ Cardinality(Prices(Asks)) = Len(Asks)

\* C21: after the provider has unmounted no new source is ever established: no step of an
\* unmounted provider calls connectBinance (the close the teardown causes schedules no
\* reconnect that later opens a socket).
C21_NoSourceAfterUnmount ==
  [][status = "unmounted" => ~ConnectsLive]_vars

\* C22: with a fixed random seed the demo generation is deterministic: a run of
\* generateDemoOrderBook and generateDemoTrade at the time of construction and a run now,
\* with the same base price, trade counter and seed, give the same order book and the
\* same trade, update identifier and timestamp included.
C22_DemoGenerationDeterministic ==
  \A s \in Symbols, seed \in Seeds :
    /\ generateDemoOrderBook(BasePriceCents(s), seed, 0) = generateDemoOrderBook(BasePriceCents(s), seed, now)
    /\ generateDemoTrade(BasePriceCents(s), tradeCounter, seed, 0)
         = generateDemoTrade(BasePriceCents(s), tradeCounter, seed, now)

\* C23: no consumer changes the state the context exposes: a render of OrderBookScreen,
\* HeatmapScreen or TradesScreen leaves the order book (bids, asks, lastUpdateId), the
\* trade list, the connection flag and the market summary as they were.
C23_ScreensLeaveFeedAlone ==
  [][NextScreens =>
       /\ BookValue' = BookValue /\ heap' = heap
       /\ trades' = trades /\ isConnected' = isConnected /\ marketData' = marketData]_vars

\* the three screens have rendered a book and a trade list longer than the chart shows
C23_Witness ==
  /\ screens.renders = MaxRenders /\ Len(trades) > ChartTrades
  /\ Len(screens.chartData) = ChartTrades
  /\ screens.chartData[1] = trades[ChartTrades].trade.price
  /\ Len(screens.asksWithTotal) = OrderBookRows /\ Len(screens.heatmapData) = 1

\* C24: the connection flag is accurate: whenever the provider is mounted and no render is
\* pending, isConnected is true only if a demo interval is running or the current live
\* socket is open (it is false while a live socket is still connecting and when no source
\* was started).
C24_FlagAccurate ==
  (status = "mounted" /\ ~connectChanged(Cur) /\ isConnected) =>
    \/ demoInterval # 0
    \/ ws # 0 /\ sockets[ws].readyState = "OPEN"

\* C25: the source is torn down and set up again only on a change of selection, on
\* reconnect() or on a disconnect, never on a change of the order book alone.  For a live
\* source: a render whose selection is the one rendered before (so that only the order
\* book can have changed) leaves the sockets as they are.
C25_BookChangeKeepsSource ==
  [][(Commit /\ status = "mounted" /\ SameSelection(rendered) /\ Live(rendered)) =>
       sockets' = sockets /\ ws' = ws]_vars

\* C26: handleSymbolChange(s), which calls setSymbol(s) and then reconnect(), starts a
\* source for the new selection only: after the handler every demo interval runs at the
\* base price of s and every socket that is connecting or open was made for s.
C26_HandlerStartsNewSelection ==
  [][\A s \in Symbols :
       (HandleSymbolChange(s) /\ s # symbol) =>
         /\ \A k \in 1..Len(intervals') : intervals'[k].basePrice = BasePriceCents(s)
         /\ \A i \in 1..Len(sockets') : Active(sockets'[i]) => sockets'[i].clo.symbol = s]_vars

\* C27: at most one reconnect timeout is pending at any time, and a pending reconnect
\* timeout is the one reconnectTimeout holds (so that reconnect() and the teardown can
\* cancel it).
C27_OneTimeoutHeld ==
  /\ Len(timers) <= 1
  /\ timers # <<>> => reconnectTimeout = 1

-----------------------------------------------------------------------------
(* Two connections on one stream.  connect() closes the socket of ws only when it is OPEN,
   so a reconnect() while the socket is still CONNECTING leaves it behind: after the
   provider was set to binance and the symbol in use was submitted once more as custom
   symbol, two sockets subscribe `btcusdt@trade`.  The exchange sends a trade of a stream
   once to every connection that subscribes the stream. *)
RECURSIVE deliver(_, _, _, _)
\* onmessage of sockets i, i-1, .., 1 for those that are open on the stream of `stream`
deliver(S, i, stream, data) ==
  IF i = 0 THEN S
  ELSE LET S1 == deliver(S, i - 1, stream, data)
       IN  IF S.sockets[i].readyState = "OPEN" /\ S.sockets[i].clo.symbol = stream
           THEN onmessage(S1, i, data) ELSE S1

\* a trade of the stream happens: every open socket of the stream raises its message
StreamTrade(stream, data) ==
  /\ used.msgs < MaxMsgs
  /\ \E i \in SocketIds : sockets[i].readyState = "OPEN" /\ sockets[i].clo.symbol = stream
  /\ Become(Count(deliver(Cur, Len(sockets), stream, data), "msgs"))

\* first render, handleProviderChange('binance'), render, handleCustomSymbolSubmit of the
\* symbol in use, and the first socket opens
leaked(seed) ==
  LET S1 == commit(InitState, seed)
      S2 == reconnect([S1 EXCEPT !.provider = "binance"], seed)
      S3 == commit(S2, seed)
      S4 == reconnect([S3 EXCEPT !.symbol = S3.symbol], seed)
  IN  onopen([S4 EXCEPT !.sockets[1].readyState = "OPEN"], 1)

InitStreams == \E seed \in Seeds : Is(Normal(leaked(seed)))

\* the renders and the events of the sockets; the user and the clock stay away
NextStreams ==
  \/ Commit
  \/ \E i \in SocketIds : SocketOpen(i)
  \/ \E i \in SocketIds, snapshot \in Snapshots : SnapshotArrives(i, snapshot)
  \/ \E i \in SocketIds : SnapshotFails(i)
  \/ \E i \in SocketIds, data \in DepthUpdates : SocketMessage(i, data)
  \/ \E stream \in Symbols, data \in TradeEvents : StreamTrade(stream, data)
  \/ \E i \in SocketIds : ServerClose(i)
  \/ \E i \in SocketIds : CloseEvent(i)

SpecStreams == InitStreams /\ [][NextStreams]_vars

\* C28: the ids of the trades in the trade list are pairwise distinct.
C28_TradeIdsDistinct ==
  \A j, k \in 1..Len(trades) : j # k => trades[j].trade.id # trades[k].trade.id

\* the prices a side of a depth update names
NamedPrices(side) == {parseFloat(side[n][1]) : n \in 1..Len(side)}

\* the levels of xs and of ys at prices outside `named` are the same
SameElsewhere(xs, ys, named) ==
  {xs[k] : k \in {n \in 1..Len(xs) : xs[n][1] \notin named}}
    = {ys[k] : k \in {n \in 1..Len(ys) : ys[n][1] \notin named}}

\* C29: a depth update changes only the levels it names: the levels of the order book at
\* prices the update does not name keep price and size, lastUpdateId is unchanged, and
\* the trade list, the market summary and the connection flag are unchanged.
C29_UpdateTouchesNamedOnly ==
  [][\A i \in SocketIds, data \in DepthUpdates :
       SocketMessage(i, data) =>
         /\ SameElsewhere(Bids, Bids', NamedPrices(data.b))
         /\ SameElsewhere(Asks, Asks', NamedPrices(data.a))
         /\ orderBook'.null = orderBook.null
         /\ ~orderBook.null => orderBook'.lastUpdateId = orderBook.lastUpdateId
         /\ trades' = trades /\ marketData' = marketData /\ isConnected' = isConnected]_vars

\* C30: after the provider mounted and its effects ran, and until the user acts or the
\* first tick comes, the selection is (BTCUSDT, crypto, demo), the demo interval is the
\* one source, isConnected is true, the order book is not null and the trade list is
\* empty.
C30_MountsInDemo ==
  (status = "mounted" /\ used.user = 0 /\ used.ticks = 0) =>
    /\ symbol = "BTCUSDT" /\ assetType = "crypto" /\ provider = "demo"
    /\ Len(intervals) = 1 /\ demoInterval = 1
    /\ intervals[1].basePrice = BasePriceCents("BTCUSDT")
    /\ sockets = <<>> /\ timers = <<>>
    /\ isConnected /\ ~orderBook.null /\ trades = <<>>

\* the provider has mounted and the clock has run, no tick yet and no user action
C30_Witness ==
  /\ status = "mounted" /\ used.user = 0 /\ used.ticks = 0 /\ now > 0
  /\ isConnected /\ demoInterval = 1 /\ trades = <<>> /\ Len(Bids) = DemoLevels

-----------------------------------------------------------------------------
(* The market-hours effect over minutes.  The provider is constructed one minute before
   the opening or the closing time of some day of the week; the clock moves by minutes.
   The demo ticks, which do not touch the market hours, are left out. *)
BootMinutes == {d * DayMinutes + m : d \in 0..6, m \in {9 * 60 + 29, 15 * 60 + 59}}

\* the callback of the interval of the market-hours effect: checkMarket
MarketTick(k) ==
  /\ marketIntervals[k].due <= now
  /\ Become([checkMarket(Cur) EXCEPT !.marketIntervals[k].due = now + MarketCheckPeriod])

\* a minute passes; React does not leave a render pending that long
AdvanceMinute ==
  /\ used.time < MaxMinutes
  /\ status = "mounted" => assetType = rendered.assetType
  /\ \A k \in 1..Len(marketIntervals) : marketIntervals[k].due > now
  /\ Become(Count([Cur EXCEPT !.now = @ + MinuteMs], "time"))

InitMarket == \E b \in BootMinutes : Is([InitState EXCEPT !.bootMinute = b])

NextMarket ==
  \/ Commit
  \/ \E t \in AssetTypes : HandleAssetTypeChange(t)
  \/ Unmount
  \/ \E k \in 1..Len(marketIntervals) : MarketTick(k)
  \/ AdvanceMinute

SpecMarket == InitMarket /\ [][NextMarket]_vars

\* the minute of the week at which the interval k was last set: the last checkMarket
checkedAt(k) == (bootMinute + (marketIntervals[k].due - MarketCheckPeriod) \div MinuteMs) % WeekMinutes

\* C31: isStockMarketOpen returns true exactly when the day is Monday to Friday and the
\* minute of the day m = 60*hours + minutes satisfies 570 <= m < 960, for every day 0..6
\* and every minute of the day; the flag the effect sets is that value at the time of
\* its last check.
C31_OpenExactlyInHours ==
  /\ \A day \in 0..6, hours \in 0..23, minutes \in 0..59 :
       isStockMarketOpen(day, hours, minutes)
         <=> (day \in 1..5 /\ 570 <= 60 * hours + minutes /\ 60 * hours + minutes < 960)
  /\ \A k \in 1..Len(marketIntervals) :
       isMarketOpen <=> /\ checkedAt(k) \div DayMinutes \in 1..5
                        /\ 570 <= checkedAt(k) % DayMinutes /\ checkedAt(k) % DayMinutes < 960

\* a tick of the interval found the market just opened, at 9:30
C31_Witness ==
  /\ assetType = "stock" /\ isMarketOpen /\ now > 0
  /\ \E k \in 1..Len(marketIntervals) :
       marketIntervals[k].due = now + MarketCheckPeriod /\ checkedAt(k) % DayMinutes = 570

\* C32: whenever the asset class is crypto and the effects have run, isMarketOpen is true
\* and no market-hours interval runs; an interval runs only while the asset class of the
\* last render is stock, at most one at a time (so the switch from stock to crypto
\* cancels it and no later tick can set isMarketOpen to false).
C32_CryptoAlwaysOpen ==
  /\ (status = "mounted" /\ assetType = "crypto" /\ rendered.assetType = "crypto") =>
       isMarketOpen /\ marketIntervals = <<>>
  /\ Len(marketIntervals) <= 1
  /\ marketIntervals # <<>> =>
       status = "mounted" /\ rendered.assetType = "stock" /\ marketCleanup = 1

\* back on crypto after stocks (the render still had the stock symbol), effects run
C32_Witness ==
  /\ status = "mounted" /\ assetType = "crypto" /\ rendered.assetType = "crypto"
  /\ rendered.symbol = DEFAULT_SYMBOLS("stock") /\ now > 0
  /\ isMarketOpen /\ marketIntervals = <<>>

-----------------------------------------------------------------------------
(* The market summary in demo mode, over all draws of the tick price (Math.random() in
   tenths, 0..9) and both base prices; up to MaxSummaryTicks ticks. *)
SummaryDraws == 0..9

\* the callback of demo interval k where Math.random() gives `draw` for the price
DemoTickDrawn(k, draw) ==
  /\ intervals[k].due <= now /\ used.ticks < MaxSummaryTicks
  /\ \E seed \in Seeds : Become(Count(demoTick(Cur, k, draw, seed), "ticks"))

NextSummary ==
  \/ Commit
  \/ \E t \in AssetTypes : HandleAssetTypeChange(t)
  \/ \E s \in Symbols : HandleSymbolChange(s)
  \/ \E k \in 1..Len(intervals), draw \in SummaryDraws : DemoTickDrawn(k, draw)
  \/ Advance

SpecSummary == Init /\ [][NextSummary]_vars

\* C33: in demo mode a market summary that is not null has low <= price <= high, and a
\* tick changes only price, change and changePercent of the summary: symbol, volume,
\* high, low and marketCap stay as the start of the demo source set them.
C33_SummaryInRange ==
  /\ [](provider = "demo" /\ ~marketData.null =>
          marketData.low <= marketData.price /\ marketData.price <= marketData.high)
  /\ [][\A k \in 1..Len(intervals), draw \in SummaryDraws :
          DemoTickDrawn(k, draw) =>
            /\ marketData'.symbol = marketData.symbol
            /\ marketData'.volume = marketData.volume
            /\ marketData'.high = marketData.high
            /\ marketData'.low = marketData.low
            /\ marketData'.marketCap = marketData.marketCap
            /\ marketData'.null = marketData.null]_vars

\* two ticks on the stock symbol, the second with the lowest draw
C33_Witness ==
  /\ provider = "demo" /\ used.ticks >= 2 /\ ~marketData.null
  /\ marketData.symbol = "AAPL"
  /\ marketData.price = TickPrice(BasePriceCents("AAPL"), 0)
  /\ marketData.change = marketData.price - BasePriceCents("AAPL")

\* C34: the ask rows the order-book screen shows are in descending price order, the best
\* ask last (next to the mid price), after every render, also a render without a change
\* of the order book.
C34_AsksShownDescending ==
  screens.bookMemo =>
    \A k \in 1..(Len(screens.asksWithTotal) - 1) :
      screens.asksWithTotal[k].price > screens.asksWithTotal[k + 1].price

\* rows are the first OrderBookRows levels of `side`, each with the running total
RowsOf(rows, side) ==
  /\ Len(rows) = Min(OrderBookRows, Len(side))
  /\ \A k \in 1..Len(rows) :
       /\ rows[k].price = side[k][1] /\ rows[k].amount = side[k][2]
       /\ rows[k].total = (IF k = 1 THEN 0 ELSE rows[k - 1].total) + rows[k].amount

\* no level of `side` behind the rows is better than a row; sign 1: bids, -1: asks
BestOf(rows, side, sign) ==
  \A k \in 1..Len(rows), j \in (Len(rows) + 1)..Len(side) :
    sign * side[j][1] <= sign * rows[k].price

\* C35: on the order-book screen each side shows at most the 15 best levels, the total of
\* a row is the sum of the amounts of the rows of its side up to it, and every row's
\* total is at most maxTotal = max(bid sum, ask sum), so every depth bar is between 0%
\* and 100% whenever maxTotal > 0.  Stated of what useMemo computes from the order book
\* of the state, and of the rows the screen holds.
C35_RowsAndTotals ==
  LET m == orderBookScreenRender(Cur, TRUE).screens
      bidRows == m.bidsWithTotal
      askRows == Reverse(m.asksWithTotal)
      last(rows) == IF rows = <<>> THEN 0 ELSE rows[Len(rows)].total
      InBar(rows, maxTotal) ==
        /\ Len(rows) <= OrderBookRows
        /\ \A k \in 1..Len(rows) : 0 <= rows[k].total /\ rows[k].total <= maxTotal
  IN  /\ RowsOf(bidRows, Bids) /\ RowsOf(askRows, Asks)
      /\ BestOf(bidRows, Bids, 1) /\ BestOf(askRows, Asks, -1)
      /\ m.maxTotal = (IF last(bidRows) > last(askRows) THEN last(bidRows) ELSE last(askRows))
      /\ InBar(bidRows, m.maxTotal) /\ InBar(askRows, m.maxTotal)
      /\ InBar(screens.bidsWithTotal, screens.maxTotal)
      /\ InBar(screens.asksWithTotal, screens.maxTotal)

\* the screen has rendered twice a book of more than 15 levels a side
C35_Witness ==
  /\ screens.bookMemo /\ screens.renders >= 2 /\ Len(Bids) > OrderBookRows
  /\ Len(screens.bidsWithTotal) = OrderBookRows /\ Len(screens.asksWithTotal) = OrderBookRows
  /\ screens.maxTotal > 0
  /\ screens.bidsWithTotal[OrderBookRows].total > screens.bidsWithTotal[1].total

====
